---- MODULE Spec2Model ----
(***************************************************************************)
(* Calendar-reminder application: the reminder notification scheduler      *)
(* (src/src/scheduler.py), the reminder tools (src/src/server.py) and the   *)
(* reminder model (src/src/models.py).                                      *)
(*                                                                         *)
(* Time is counted in minutes.  The two JSON files (reminders.json and      *)
(* notification_log.json) are the variables store and ledger.  A scheduler  *)
(* tick is split at the points where the tool process can run in between:   *)
(* the load (lines 57-58), the loop (59-128) and the saves (130-133).       *)
(***************************************************************************)
EXTENDS Integers, Sequences, FiniteSets, TLC

\* ---------------------------------------------------------------- bounds
\* Number of reminder ids (uuid4 values) generated during a run.
MaxReminders == 2
\* Number of tool calls (server.py) made during a run.
MaxOps == 3
\* Number of times the interval trigger fires the job during a run.
MaxTicks == 2

\* Event start times (minutes) the tool calls draw from, and the clock
\* readings of a run.  At 1470 the first event is 30 minutes ahead (both of
\* its offsets are reached) and the second 90 minutes ahead (only its 1440
\* offset is reached); at 1530 the first event has started and the second is
\* 30 minutes ahead.
StartTimes == {1500, 1560}
Times == {1470, 1530}
FirstTime == CHOOSE t \in Times : \A u \in Times : t <= u

\* ------------------------------------------------------------- constants
None == "None"

PENDING == "pending"
NOTIFIED == "notified"
COMPLETED == "completed"
CANCELLED == "cancelled"
ReminderStatus == {PENDING, NOTIFIED, COMPLETED, CANCELLED}

\* NotificationSettings.minutes_before default, and create_reminder's
\* "notification_minutes or [60, 1440]".
DefaultMinutesBefore == <<60, 1440>>

\* notification_minutes arguments of create_reminder used by the runs; None
\* and [] are both falsy and are written <<>>.
NotificationMinutesArgs == {<<>>}

\* datetime.isoformat() and datetime.fromisoformat(): the string of an
\* instant, and the instant of such a string.
isoformat(t) == <<"iso", t>>
fromisoformat(s) == s[2]

\* An optional argument: <<>> when absent (None or an empty string), <<v>>
\* when given.
DatetimeArgs == {<<>>} \cup {<<isoformat(t)>> : t \in StartTimes}
StatusArgs == {None} \cup ReminderStatus

\* The arguments of update_reminder with no field given.  title, location,
\* description and status are None or a string; datetime_str is <<>> (None or
\* an empty string) or <<s>>; attendees is <<>> (None) or <<list>>.
NoUpdate ==
    [title |-> None, datetime_str |-> <<>>, attendees |-> <<>>,
     location |-> None, description |-> None, status |-> None]

\* The arguments of the update_reminder calls of the runs: a call gives no
\* field, a new start time, or a new status.
UpdateArgs ==
    {[NoUpdate EXCEPT !.datetime_str = d] : d \in DatetimeArgs}
    \cup {[NoUpdate EXCEPT !.status = st] : st \in ReminderStatus}

\* What EmailService.send_reminder_notification returns: (True, None) or
\* (False, <message>).
SendOk == <<TRUE, None>>
SendFailed == <<FALSE, "send failed">>
SendResults == {SendOk, SendFailed}

\* What happens inside send_reminder_notification's try block (lines 43-68):
\* the message is sent, or building or sending it raises.
SmtpOutcomes == {"sent", "error"}

\* An exception leaving the call instead of a returned pair.
Raised == <<FALSE, "raised">>

\* send_reminder_notification: "except Exception" at lines 70-71 turns every
\* exception of the try block into the pair (False, str(e)).
send_reminder_notification_Raises(outcome) ==
    IF outcome = "sent" THEN SendOk ELSE Raised
send_reminder_notification(outcome) ==
    IF outcome = "sent" THEN SendOk ELSE SendFailed

\* google_event_id: <<>> for None, or the id the calendar API returned for
\* the event of reminder id.
NoEventId == <<>>
EventId(id) == <<"evt", id>>

Range(s) == {s[i] : i \in DOMAIN s}

VARIABLES
    clock,          \* datetime.now()
    store,          \* reminders.json: reminder id -> reminder record
    ledger,         \* notification_log.json: log key -> NotificationLog
    nextId,         \* number of reminder ids generated so far
    lastOp,         \* what the tool call just made returned (NoReply after
                    \* any other step)
    pc,             \* position of the scheduler job
    tStore,         \* reminders.json as the running tick read it
    tReminders,     \* the tick's local "reminders"
    tLog,           \* the tick's local "notification_log"
    tNow,           \* the tick's local "now"
    sentCount,      \* the tick's local "sent_count"
    attempted,      \* (id, offset) pairs the running tick called send for
    sendResult,     \* what send returned for each of them
    prevAttempted,  \* the pairs the tick before called send for, while no
                    \* tool call has been made since
    tStoreWrites,   \* times the running tick wrote reminders.json
    tLogWrites,     \* times the running tick wrote notification_log.json
    nOps,           \* tool calls made so far
    nTicks,         \* ticks started so far
    createdEvents   \* the calendar: reminder id -> number of events that
                    \* create_event has inserted for it

tickVars == <<pc, tStore, tReminders, tLog, tNow, sentCount, attempted,
              sendResult, tStoreWrites, tLogWrites>>
vars == <<clock, store, ledger, nextId, lastOp, pc, tStore, tReminders, tLog,
          tNow, sentCount, attempted, sendResult, prevAttempted, tStoreWrites,
          tLogWrites, nOps, nTicks, createdEvents>>

Empty == [x \in {} |-> None]

\* ------------------------------------------------------------ models.py
\* EventDetails.validate_future_datetime: TRUE when the value is accepted.
validate_future_datetime_Off(v, now) == TRUE
validate_future_datetime(v, now) == ~(v < now)

\* The title, attendees, location and description the create_reminder calls
\* of the runs give.
DefaultTitle == "Standup"
NoAttendees == <<>>

\* Reminder(event=..., notification_settings=...) with the field defaults,
\* built at time now (created_at and updated_at are dt.now()).
NewReminder(id, start, minutes, now) ==
    [id |-> id, title |-> DefaultTitle, datetime |-> start,
     attendees |-> NoAttendees, location |-> None, description |-> None,
     minutes_before |-> minutes, email_enabled |-> TRUE, status |-> PENDING,
     calendar_synced |-> FALSE, google_event_id |-> NoEventId,
     created_at |-> now, updated_at |-> now]

\* Reminder.to_dict: the JSON object written for a reminder.
to_dict(r) ==
    [id |-> r.id,
     event |-> [title |-> r.title, datetime |-> isoformat(r.datetime),
                attendees |-> r.attendees, location |-> r.location,
                description |-> r.description],
     notification_settings |-> [minutes_before |-> r.minutes_before,
                                email_enabled |-> r.email_enabled],
     status |-> r.status,
     calendar_synced |-> r.calendar_synced,
     google_event_id |-> r.google_event_id,
     created_at |-> isoformat(r.created_at),
     updated_at |-> isoformat(r.updated_at)]

\* Reminder.from_dict at time now: [ok |-> FALSE] when EventDetails(...)
\* raises, the reminder otherwise.
from_dict(data, now) ==
    IF ~validate_future_datetime(fromisoformat(data.event.datetime), now)
    THEN [ok |-> FALSE, value |-> None]
    ELSE [ok |-> TRUE,
          value |-> [id |-> data.id, title |-> data.event.title,
                     datetime |-> fromisoformat(data.event.datetime),
                     attendees |-> data.event.attendees,
                     location |-> data.event.location,
                     description |-> data.event.description,
                     minutes_before |-> data.notification_settings.minutes_before,
                     email_enabled |-> data.notification_settings.email_enabled,
                     status |-> data.status,
                     calendar_synced |-> data.calendar_synced,
                     google_event_id |-> data.google_event_id,
                     created_at |-> fromisoformat(data.created_at),
                     updated_at |-> fromisoformat(data.updated_at)]]

\* Reminder.from_dict builds EventDetails(**event_data), which runs the
\* validator: TRUE when the stored reminder data loads.
from_dict_ok(data, now) == from_dict(to_dict(data), now).ok

\* _load_reminders (scheduler.py and server.py alike): the pydantic error
\* of from_dict is neither FileNotFoundError nor JSONDecodeError, so it
\* leaves the function.  TRUE when the load returns.
load_reminders_ok(file, now) == \A id \in DOMAIN file : from_dict_ok(file[id], now)

\* _save_reminders: the JSON object written to reminders.json.
save_reminders(reminders) == [id \in DOMAIN reminders |-> to_dict(reminders[id])]

\* _load_reminders at time now on the JSON object json: [ok |-> FALSE] when
\* from_dict raises for one of the reminders, the reminder map otherwise.
load_reminders(json, now) ==
    IF \E id \in DOMAIN json : ~from_dict(json[id], now).ok
    THEN [ok |-> FALSE, value |-> Empty]
    ELSE [ok |-> TRUE, value |-> [id \in DOMAIN json |-> from_dict(json[id], now).value]]

\* ---------------------------------------------------------- scheduler.py
\* log_key = f"{reminder.id}_{minutes_before}"
LogKey(id, minutes_before) == <<id, minutes_before>>

\* notification_time = reminder.event.datetime - timedelta(minutes=...)
NotificationTime_NoOffset(start, minutes_before) == start
NotificationTime(start, minutes_before) == start - minutes_before

\* if now >= notification_time
IsTime_Strict(now, notification_time) == now > notification_time
IsTime(now, notification_time) == now >= notification_time

\* if log_key in notification_log
AlreadyLogged_Never(key, log) == FALSE
AlreadyLogged(key, log) == key \in DOMAIN log

\* The inner loop (lines 80-90) over minutes_before from position i: the
\* offsets send is called for, in order.  done holds the offsets already
\* attempted in this pass, whose keys line 113 has put into the log.
RECURSIVE DueFrom(_, _, _, _, _)
DueFrom(r, now, log, i, done) ==
    IF i > Len(r.minutes_before) THEN done
    ELSE LET mb == r.minutes_before[i]
             nt == NotificationTime(r.datetime, mb)
         IN  IF IsTime(now, nt)
                /\ ~AlreadyLogged(LogKey(r.id, mb), log)
                /\ mb \notin Range(done)
             THEN DueFrom(r, now, log, i + 1, Append(done, mb))
             ELSE DueFrom(r, now, log, i + 1, done)

\* Lines 63-90 for one reminder: the three skips, then the inner loop.
DueOffsets_FirstOnly(r, now, log) ==
    IF r.status \notin {PENDING, NOTIFIED} THEN <<>>
    ELSE IF r.datetime < now THEN <<>>
    ELSE IF ~r.email_enabled THEN <<>>
    ELSE LET offs == DueFrom(r, now, log, 1, <<>>)
         IN  IF offs = <<>> THEN <<>> ELSE <<Head(offs)>>
DueOffsets(r, now, log) ==
    IF r.status \notin {PENDING, NOTIFIED} THEN <<>>
    ELSE IF r.datetime < now THEN <<>>
    ELSE IF ~r.email_enabled THEN <<>>
    ELSE DueFrom(r, now, log, 1, <<>>)

\* All (id, offset) pairs the loop calls send for.
DuePairs(reminders, now, log) ==
    UNION {{LogKey(id, mb) : mb \in Range(DueOffsets(reminders[id], now, log))} :
           id \in DOMAIN reminders}

\* Lines 106-113: the NotificationLog built from what send returned, with the
\* notification_time computed at line 70 (sent_at, the wall clock of the
\* attempt, is not kept).
NotificationLog_SuccessOnly(r, minutes_before, res) ==
    [reminder_id |-> r.id, minutes_before |-> minutes_before,
     notification_time |-> r.datetime - minutes_before,
     success |-> TRUE, error_message |-> None]
NotificationLog(r, minutes_before, res) ==
    [reminder_id |-> r.id, minutes_before |-> minutes_before,
     notification_time |-> r.datetime - minutes_before,
     success |-> res[1], error_message |-> res[2]]

\* Lines 115-124: the status after one send.
StatusAfterSend_Always(status, success) ==
    IF status = PENDING THEN NOTIFIED ELSE status
StatusAfterSend(status, success) ==
    IF success /\ status = PENDING THEN NOTIFIED ELSE status

\* The status of reminder id after the sends for offsets, in order.
RECURSIVE StatusAfter(_, _, _, _)
StatusAfter(status, id, offsets, res) ==
    IF offsets = <<>> THEN status
    ELSE StatusAfter(StatusAfterSend(status, res[LogKey(id, Head(offsets))][1]),
                     id, Tail(offsets), res)

\* if sent_count > 0: self._save_reminders(reminders)
ShouldSaveReminders_Never(sent_count) == FALSE
ShouldSaveReminders(sent_count) == sent_count > 0

\* Lines 190-206 of get_pending_notifications for one reminder: an item for
\* each offset whose key is not in the log, in the order of minutes_before.
PendingOf(r, now, log) ==
    IF r.status \notin {PENDING, NOTIFIED} THEN <<>>
    ELSE IF r.datetime < now THEN <<>>
    ELSE LET items == [j \in 1..Len(r.minutes_before) |->
                         LET mb == r.minutes_before[j]
                             nt == NotificationTime(r.datetime, mb)
                         IN  [reminder_id |-> r.id,
                              event_datetime |-> isoformat(r.datetime),
                              notification_time |-> isoformat(nt),
                              minutes_before |-> mb,
                              is_due |-> IsTime(now, nt)]]
             NotLogged(it) ==
                 ~AlreadyLogged(LogKey(it.reminder_id, it.minutes_before), log)
         IN  SelectSeq(items, NotLogged)

\* Lines 183-206: the "pending" list, reminders in the order of the file.
RECURSIVE PendingFrom(_, _, _, _)
PendingFrom(reminders, now, log, id) ==
    IF \A i \in DOMAIN reminders : i < id THEN <<>>
    ELSE (IF id \in DOMAIN reminders THEN PendingOf(reminders[id], now, log)
          ELSE <<>>)
         \o PendingFrom(reminders, now, log, id + 1)

\* The order of two ISO strings of instants, as Python compares strings.
IsoLessEq(s, t) == fromisoformat(s) <= fromisoformat(t)

\* sorted(pending, key=notification_time): item goes after the items of the
\* sorted list whose key is not greater (the sort is stable).
RECURSIVE InsertSorted(_, _)
InsertSorted(item, sorted) ==
    IF sorted = <<>> THEN <<item>>
    ELSE IF IsoLessEq(Head(sorted).notification_time, item.notification_time)
    THEN <<Head(sorted)>> \o InsertSorted(item, Tail(sorted))
    ELSE <<item>> \o sorted

RECURSIVE SortByNotificationTime(_)
SortByNotificationTime(items) ==
    IF items = <<>> THEN <<>>
    ELSE InsertSorted(items[Len(items)],
                      SortByNotificationTime(SubSeq(items, 1, Len(items) - 1)))

\* get_pending_notifications at time now: [ok |-> FALSE] when
\* _load_reminders raises (the function has no try), the sorted list
\* otherwise.
get_pending_notifications(file, now, log) ==
    IF ~load_reminders_ok(file, now) THEN [ok |-> FALSE, value |-> <<>>]
    ELSE [ok |-> TRUE,
          value |-> SortByNotificationTime(PendingFrom(file, now, log, 1))]

\* A tool call as its caller sees it: the tool, the reminder id and argument
\* it was given, what the calendar reported to it ("ok", "failed", or
\* "not called"), and the "success" and error or warning it returned.
Reply(op, id, arg, cal, ok, err) ==
    [op |-> op, id |-> id, arg |-> arg, cal |-> cal, ok |-> ok, err |-> err]
NoReply == Reply("none", 0, <<>>, "not called", TRUE, None)
CalendarReport(calOk) == IF calOk THEN "ok" ELSE "failed"

\* ------------------------------------------------- check_and_send_reminders
NoTick ==
    /\ tStore' = Empty
    /\ tReminders' = Empty
    /\ tLog' = Empty
    /\ tNow' = 0
    /\ sentCount' = 0
    /\ attempted' = {}
    /\ sendResult' = Empty
    /\ tStoreWrites' = 0
    /\ tLogWrites' = 0

\* Line 138, "except Exception": the position of the job after error e was
\* raised inside the try block.  "raised" is the error leaving
\* check_and_send_reminders.
Handled_ValueErrorOnly(e) == IF e = "ValueError" THEN "aborted" ELSE "raised"
Handled(e) == IF e \in {"ValueError", "OSError", "Exception"} THEN "aborted"
              ELSE "raised"

\* Lines 57-58: both files are read.  A stored reminder whose event has
\* started makes from_dict raise, which line 138 catches: the tick ends
\* there.  logReadable is whether notification_log.json is there and parses:
\* _load_notification_log returns {} when it does not (lines 166-167).
TickLoadLog(logReadable) ==
    /\ pc = "idle"
    /\ nTicks < MaxTicks
    /\ nTicks' = nTicks + 1
    /\ tStore' = store
    /\ IF load_reminders_ok(store, clock)
       THEN /\ pc' = "loaded"
            /\ tReminders' = store
            /\ tLog' = IF logReadable THEN ledger ELSE Empty
       ELSE /\ pc' = Handled("ValueError")
            /\ tReminders' = Empty
            /\ tLog' = Empty
    /\ lastOp' = NoReply
    /\ UNCHANGED <<clock, store, ledger, nextId, createdEvents, tNow, sentCount, attempted,
                   sendResult, prevAttempted, tStoreWrites, tLogWrites, nOps>>

\* The load with notification_log.json readable.
TickLoad ==
    /\ pc = "idle"
    /\ TickLoadLog(TRUE)

\* The load with notification_log.json unreadable (its text is not valid
\* JSON); ledger keeps the entries written to it.
TickLoadUnreadableLog ==
    /\ ledger # Empty
    /\ TickLoadLog(FALSE)

\* The pairs of DuePairs in the order the loop reaches them: reminders in
\* the order of the file (the order of creation, that of the ids), offsets
\* in the order of minutes_before.
RECURSIVE DueSeqFrom(_, _, _, _)
DueSeqFrom(reminders, now, log, id) ==
    IF \A i \in DOMAIN reminders : i < id THEN <<>>
    ELSE LET offs == IF id \in DOMAIN reminders
                     THEN DueOffsets(reminders[id], now, log) ELSE <<>>
         IN  [j \in 1..Len(offs) |-> LogKey(id, offs[j])]
             \o DueSeqFrom(reminders, now, log, id + 1)

DueSeq(reminders, now, log) == DueSeqFrom(reminders, now, log, 1)

\* Lines 59-133: now is read, the loop runs over the loaded reminders, and
\* the two files are saved; out is what happens inside send for each pair it
\* is called for.  The loop changes the tick's locals only, so nothing another
\* process does between the loop and the saves can be told from its doing
\* it before the loop.  fault names the save that raises an OSError:
\* "reminders" (line 132), "log" (line 133) or "none".
TickBody(fault) ==
    /\ pc = "loaded"
    /\ LET now == clock
           due == DuePairs(tReminders, now, tLog)
           seq == DueSeq(tReminders, now, tLog)
       IN  \E out \in [due -> SmtpOutcomes] :
             LET res == [k \in due |-> send_reminder_notification(out[k])]
                 raisedAt == {j \in 1..Len(seq) : res[seq[j]] = Raised}
                 log == [k \in DOMAIN tLog \cup due |->
                           IF k \in due
                           THEN NotificationLog(tReminders[k[1]], k[2], res[k])
                           ELSE tLog[k]]
                 reminders == [id \in DOMAIN tReminders |->
                                 [tReminders[id] EXCEPT !.status =
                                    StatusAfter(@, id,
                                        DueOffsets(tReminders[id], now, tLog),
                                        res)]]
                 sent_count == Cardinality({k \in due : res[k][1]})
             IN  IF raisedAt # {}
                 THEN \* send raised at line 99: the loop ends there.
                      LET n == CHOOSE j \in raisedAt : \A m \in raisedAt : j <= m
                          called == {seq[j] : j \in 1..n}
                      IN  /\ fault = "none"
                          /\ tNow' = now
                          /\ attempted' = called
                          /\ sendResult' = [k \in called |-> res[k]]
                          /\ pc' = Handled("Exception")
                          /\ UNCHANGED <<tLog, tReminders, sentCount, store,
                                         ledger, tStoreWrites, tLogWrites>>
                 ELSE /\ tNow' = now
                      /\ attempted' = due
                      /\ sendResult' = res
                      /\ tLog' = log
                      /\ tReminders' = reminders
                      /\ sentCount' = sent_count
                      /\ fault = "reminders" => ShouldSaveReminders(sent_count)
                      /\ IF ShouldSaveReminders(sent_count) /\ fault # "reminders"
                         THEN store' = reminders /\ tStoreWrites' = tStoreWrites + 1
                         ELSE UNCHANGED <<store, tStoreWrites>>
                      /\ IF fault = "none"
                         THEN /\ ledger' = log
                              /\ tLogWrites' = tLogWrites + 1
                              /\ pc' = "done"
                         ELSE /\ UNCHANGED <<ledger, tLogWrites>>
                              /\ pc' = Handled("OSError")
    /\ lastOp' = NoReply
    /\ UNCHANGED <<clock, nextId, tStore, prevAttempted, nOps, nTicks,
                   createdEvents>>

\* The tick with both saves succeeding.
TickRun ==
    /\ pc = "loaded"
    /\ TickBody("none")

\* The tick with one of its two saves failing: open(file_path, "w") raises
\* and the file stays as it was.
TickSaveFails ==
    /\ pc = "loaded"
    /\ \E fault \in {"reminders", "log"} : TickBody(fault)

\* The job returns to the interval trigger; its locals are gone.
TickReturn ==
    /\ pc \in {"done", "aborted"}
    /\ pc' = "idle"
    /\ prevAttempted' = attempted
    /\ NoTick
    /\ lastOp' = NoReply
    /\ UNCHANGED <<clock, store, ledger, nextId, nOps, nTicks, createdEvents>>

\* ---------------------------------------------------------------- server.py
\* "done" and "aborted" are the instant at which the job returns: a tool call
\* or a clock reading there is one in the "idle" state that follows.
Between == pc \in {"idle", "loaded"}

\* One more tool call of the run.
ToolCall ==
    /\ Between
    /\ nOps < MaxOps
    /\ nOps' = nOps + 1
    /\ prevAttempted' = {}
    /\ UNCHANGED nTicks

\* create_reminder(title, datetime_str, ..., notification_minutes).  Both
\* errors are pydantic validation errors caught at line 106: "validation" is
\* the one of EventDetails(...) at line 73, "load" the one of _load_reminders
\* at line 93.
CreateReminder(start, nm) ==
    /\ ToolCall
    /\ nextId < MaxReminders
    /\ LET id == nextId + 1
           minutes == IF nm = <<>> THEN DefaultMinutesBefore ELSE nm
       IN  IF ~validate_future_datetime(start, clock)
           THEN /\ lastOp' = Reply("create", 0, <<start>>, "not called", FALSE,
                                   "validation")
                /\ UNCHANGED <<store, nextId>>
           ELSE IF ~load_reminders_ok(store, clock)
           THEN /\ lastOp' = Reply("create", 0, <<start>>, "not called", FALSE,
                                   "load")
                /\ UNCHANGED <<store, nextId>>
           ELSE /\ store' = (id :> NewReminder(id, start, minutes, clock)) @@ store
                /\ nextId' = id
                /\ lastOp' = Reply("create", id, <<start>>, "not called", TRUE,
                                   None)
    /\ UNCHANGED <<clock, ledger, createdEvents>>
    /\ UNCHANGED tickVars

\* "if title:", "if datetime_str:", "if status:" (lines 232-243): None and
\* the empty string are falsy.
Truthy_NotNone(x) == x # None
Truthy(x) == x # None /\ x # ""

\* status.lower() for the status strings the calls give.
lower(st) ==
    CASE st = "PENDING" -> "pending"
      [] st = "NOTIFIED" -> "notified"
      [] st = "COMPLETED" -> "completed"
      [] st = "CANCELLED" -> "cancelled"
      [] OTHER -> st

\* Lines 232-245 of update_reminder: the reminder after the fields given in
\* args are assigned and update_timestamp() is called at time now.
UpdateFields(r, args, now) ==
    LET r1 == IF Truthy(args.title) THEN [r EXCEPT !.title = args.title] ELSE r
        r2 == IF args.datetime_str # <<>>
              THEN [r1 EXCEPT !.datetime = fromisoformat(args.datetime_str[1])]
              ELSE r1
        r3 == IF args.attendees # <<>>
              THEN [r2 EXCEPT !.attendees = args.attendees[1]] ELSE r2
        r4 == IF args.location # None
              THEN [r3 EXCEPT !.location = args.location] ELSE r3
        r5 == IF args.description # None
              THEN [r4 EXCEPT !.description = args.description] ELSE r4
        r6 == IF Truthy(args.status)
              THEN [r5 EXCEPT !.status = lower(args.status)] ELSE r5
    IN  [r6 EXCEPT !.updated_at = now]

\* Lines 251-271 of update_reminder: the "success" and warning returned after
\* the save, calOk being what update_event reported for a synced reminder.
UpdateResult_Fatal(r, calOk) ==
    IF r.calendar_synced /\ ~calOk THEN <<FALSE, "calendar">> ELSE <<TRUE, None>>
UpdateResult(r, calOk) ==
    IF r.calendar_synced /\ ~calOk THEN <<TRUE, "calendar warning">>
    ELSE <<TRUE, None>>

\* update_reminder(reminder_id, title, datetime_str, attendees, location,
\* description, status); calOk is what calendar_integration.update_event
\* reports.
UpdateReminder(id, args, calOk) ==
    /\ ToolCall
    /\ IF ~load_reminders_ok(store, clock)
       THEN /\ lastOp' = Reply("update", id, args, "not called", FALSE, "load")
            /\ UNCHANGED store
       ELSE IF id \notin DOMAIN store
       THEN /\ lastOp' = Reply("update", id, args, "not called", FALSE,
                               "not found")
            /\ UNCHANGED store
       ELSE LET r == UpdateFields(store[id], args, clock)
                result == UpdateResult(r, calOk)
            IN  /\ store' = [store EXCEPT ![id] = r]
                /\ lastOp' = Reply("update", id, args,
                                   IF r.calendar_synced
                                   THEN CalendarReport(calOk) ELSE "not called",
                                   result[1], result[2])
    /\ UNCHANGED <<clock, ledger, nextId, createdEvents>>
    /\ UNCHANGED tickVars

\* Lines 302-312 of delete_reminder: the local delete goes ahead unless the
\* reminder is synced, has an event id and the external delete failed.
DeleteProceeds_Always(r, calOk) == TRUE
DeleteProceeds(r, calOk) ==
    ~(r.calendar_synced /\ r.google_event_id # NoEventId) \/ calOk

\* Lines 303-304: delete_event is called for a synced reminder with an event
\* id only.
DeleteCalendar(r, calOk) ==
    IF r.calendar_synced /\ r.google_event_id # NoEventId
    THEN CalendarReport(calOk) ELSE "not called"

\* delete_reminder(reminder_id); calOk is what
\* calendar_integration.delete_event reports.
DeleteReminder(id, calOk) ==
    /\ ToolCall
    /\ IF ~load_reminders_ok(store, clock)
       THEN /\ lastOp' = Reply("delete", id, <<>>, "not called", FALSE, "load")
            /\ UNCHANGED store
       ELSE IF id \notin DOMAIN store
       THEN /\ lastOp' = Reply("delete", id, <<>>, "not called", FALSE,
                               "not found")
            /\ UNCHANGED store
       ELSE IF ~DeleteProceeds(store[id], calOk)
       THEN /\ lastOp' = Reply("delete", id, <<>>, DeleteCalendar(store[id], calOk),
                               FALSE, "calendar")
            /\ UNCHANGED store
       ELSE /\ store' = [i \in DOMAIN store \ {id} |-> store[i]]
            /\ lastOp' = Reply("delete", id, <<>>, DeleteCalendar(store[id], calOk),
                               TRUE, None)
    /\ UNCHANGED <<clock, ledger, nextId, createdEvents>>
    /\ UNCHANGED tickVars

\* Lines 374-409 of sync_to_calendar for the reminders toSync; created holds
\* the ids for which the calendar call (create_event, or update_event for a
\* synced reminder) succeeds.
SyncEach_Always(reminders, toSync, created, now) ==
    [id \in DOMAIN reminders |->
        IF id \in toSync /\ ~reminders[id].calendar_synced
        THEN [reminders[id] EXCEPT !.calendar_synced = TRUE,
                                   !.google_event_id = EventId(id),
                                   !.updated_at = now]
        ELSE reminders[id]]
SyncEach_NoEventId(reminders, toSync, created, now) ==
    [id \in DOMAIN reminders |->
        IF id \in toSync /\ ~reminders[id].calendar_synced /\ id \in created
        THEN [reminders[id] EXCEPT !.calendar_synced = TRUE,
                                   !.updated_at = now]
        ELSE reminders[id]]
SyncEach(reminders, toSync, created, now) ==
    [id \in DOMAIN reminders |->
        IF id \in toSync /\ ~reminders[id].calendar_synced /\ id \in created
        THEN [reminders[id] EXCEPT !.calendar_synced = TRUE,
                                   !.google_event_id = EventId(id),
                                   !.updated_at = now]
        ELSE reminders[id]]

\* Lines 388-391: the calendar after the create_event calls of one
\* sync_to_calendar call; an insert that succeeds adds an event.
Inserted(reminders, toSync, created) ==
    [id \in DOMAIN createdEvents |->
        IF id \in toSync /\ ~reminders[id].calendar_synced /\ id \in created
        THEN createdEvents[id] + 1
        ELSE createdEvents[id]]

\* The calendar that goes with a store: one event for each synced reminder.
EventsOf(reminders) ==
    [id \in 1..MaxReminders |->
        IF id \in DOMAIN reminders /\ reminders[id].calendar_synced
        THEN 1 ELSE 0]

\* Lines 379-406: the "results" list of sync_to_calendar, one item for each
\* reminder of toSync.
SyncResults(reminders, toSync, created) ==
    [id \in toSync |->
        [action |-> IF reminders[id].calendar_synced THEN "update" ELSE "create",
         success |-> id \in created]]

\* sync_to_calendar(reminder_id) for one id; createOk is what
\* calendar_integration.create_event reports for a reminder not synced yet,
\* or update_event for a synced one.
SyncOne(id, createOk) ==
    /\ ToolCall
    /\ IF ~load_reminders_ok(store, clock)
       THEN /\ lastOp' = Reply("sync", id, <<>>, "not called", FALSE, "load")
            /\ UNCHANGED <<store, createdEvents>>
       ELSE IF id \notin DOMAIN store
       THEN /\ lastOp' = Reply("sync", id, <<>>, "not called", FALSE, "not found")
            /\ UNCHANGED <<store, createdEvents>>
       ELSE /\ store' = SyncEach(store, {id}, IF createOk THEN {id} ELSE {}, clock)
            /\ createdEvents' = Inserted(store, {id},
                                         IF createOk THEN {id} ELSE {})
            /\ lastOp' = Reply("sync", id,
                               SyncResults(store, {id},
                                           IF createOk THEN {id} ELSE {}),
                               CalendarReport(createOk), TRUE, None)
    /\ UNCHANGED <<clock, ledger, nextId>>
    /\ UNCHANGED tickVars

\* sync_to_calendar() for all reminders not synced and not cancelled.
SyncAll(created) ==
    /\ ToolCall
    /\ IF ~load_reminders_ok(store, clock)
       THEN /\ lastOp' = Reply("sync", 0, <<>>, "not called", FALSE, "load")
            /\ UNCHANGED <<store, createdEvents>>
       ELSE LET toSync == {id \in DOMAIN store :
                             /\ ~store[id].calendar_synced
                             /\ store[id].status # CANCELLED}
            IN  /\ store' = SyncEach(store, toSync, created, clock)
                /\ createdEvents' = Inserted(store, toSync, created)
                /\ lastOp' = Reply("sync", 0,
                                   SyncResults(store, toSync, created),
                                   IF toSync = {} THEN "not called"
                                   ELSE CalendarReport(toSync \subseteq created),
                                   TRUE, None)
    /\ UNCHANGED <<clock, ledger, nextId>>
    /\ UNCHANGED tickVars

\* sync_to_calendar with the integration switched off (lines 342-349).
SyncDisabled ==
    /\ ToolCall
    /\ lastOp' = Reply("sync", 0, <<>>, "not called", FALSE, "not enabled")
    /\ UNCHANGED <<clock, store, ledger, nextId, createdEvents>>
    /\ UNCHANGED tickVars

\* ------------------------------------------------------------ environment
AdvanceClock ==
    /\ Between
    /\ UNCHANGED <<nOps, nTicks, prevAttempted>>
    /\ \E t \in Times : t > clock /\ clock' = t
    /\ lastOp' = NoReply
    /\ UNCHANGED <<store, ledger, nextId, createdEvents>>
    /\ UNCHANGED tickVars

Ids == 1..MaxReminders

\* What the calendar can report for reminder id: success or failure when the
\* reminder is synced; it is not called otherwise.
CalendarResults(id) ==
    IF id \in DOMAIN store /\ store[id].calendar_synced THEN BOOLEAN ELSE {TRUE}

Init ==
    /\ clock = FirstTime
    /\ store = Empty
    /\ ledger = Empty
    /\ nextId = 0
    /\ createdEvents = EventsOf(store)
    /\ lastOp = NoReply
    /\ pc = "idle"
    /\ tStore = Empty
    /\ tReminders = Empty
    /\ tLog = Empty
    /\ tNow = 0
    /\ sentCount = 0
    /\ attempted = {}
    /\ sendResult = Empty
    /\ prevAttempted = {}
    /\ tStoreWrites = 0
    /\ tLogWrites = 0
    /\ nOps = 0
    /\ nTicks = 0

Next ==
    \/ TickLoad
    \/ TickRun
    \/ TickReturn
    \/ \E start \in StartTimes, nm \in NotificationMinutesArgs :
          CreateReminder(start, nm)
    \/ \E id \in Ids, args \in UpdateArgs : \E calOk \in CalendarResults(id) :
          UpdateReminder(id, args, calOk)
    \/ \E id \in Ids : \E calOk \in CalendarResults(id) : DeleteReminder(id, calOk)
    \/ \E id \in Ids, createOk \in BOOLEAN : SyncOne(id, createOk)
    \/ \E created \in SUBSET DOMAIN store : SyncAll(created)
    \/ SyncDisabled
    \/ AdvanceClock

Spec == Init /\ [][Next]_vars

\* ------------------------------------------------------- runs with faults
\* Runs of the scheduler with file faults: a save of the tick that raises,
\* and a notification log the tick cannot parse.  The tool calls of these
\* runs are the create_reminder and delete_reminder calls.
NextFault ==
    \/ TickLoad
    \/ TickRun
    \/ TickReturn
    \/ TickSaveFails
    \/ TickLoadUnreadableLog
    \/ \E start \in StartTimes, nm \in NotificationMinutesArgs :
          CreateReminder(start, nm)
    \/ \E id \in Ids : \E calOk \in CalendarResults(id) : DeleteReminder(id, calOk)
    \/ AdvanceClock

SpecFault == Init /\ [][NextFault]_vars

\* -------------------------------------------------- the loop on drawn inputs
\* The loop of check_and_send_reminders applied to one loaded reminder, a
\* clock reading and a notification log drawn from the sets below: every
\* status, the channel on or off, offsets in either order or repeated, and
\* clock readings on both sides of each notification time and of the start.
EvalStarts == {1500}
EvalCreated == 0
EvalMinutes == {<<60, 1440>>, <<1440, 60>>, <<60>>, <<60, 60>>}
EvalNows == {59, 60, 61, 1439, 1440, 1441, 1470, 1500, 1501}
EvalReminders ==
    {[NewReminder(1, start, minutes, EvalCreated) EXCEPT !.status = st, !.email_enabled = en] :
        start \in EvalStarts, minutes \in EvalMinutes,
        st \in ReminderStatus, en \in BOOLEAN}
EvalLogs ==
    UNION {{[k \in K |-> NotificationLog([id |-> k[1], datetime |-> 1500],
                                         k[2], f[k])] :
              f \in [K -> SendResults]} :
           K \in SUBSET {LogKey(1, 60), LogKey(1, 1440)}}

InitEval ==
    /\ clock \in EvalNows
    /\ \E r \in EvalReminders : store = (1 :> r)
    /\ ledger \in EvalLogs
    /\ nextId = 1
    /\ createdEvents = EventsOf(store)
    /\ lastOp = NoReply
    /\ pc = "loaded"
    /\ tStore = store
    /\ tReminders = store
    /\ tLog = ledger
    /\ tNow = 0
    /\ sentCount = 0
    /\ attempted = {}
    /\ sendResult = Empty
    /\ prevAttempted = {}
    /\ tStoreWrites = 0
    /\ tLogWrites = 0
    /\ nOps = 0
    /\ nTicks = 1

NextEval ==
    \/ TickRun
    \/ TickReturn

SpecEval == InitEval /\ [][NextEval]_vars

\* ------------------------------------------- update_reminder on drawn inputs
\* One update_reminder call on a store of two reminders, with every
\* combination of the arguments below: each field absent or given, the
\* strings empty or not, the status in either case.
TitleArgs == {None, "", "Retro"}
AttendeesArgs == {<<>>, <<NoAttendees>>, <<<<"ann@example.org">>>>}
LocationArgs == {None, "", "Room 2"}
DescriptionArgs == {None, "Notes"}
StatusStringArgs == {None, "", "cancelled", "COMPLETED"}
AllUpdateArgs ==
    [title : TitleArgs, datetime_str : DatetimeArgs, attendees : AttendeesArgs,
     location : LocationArgs, description : DescriptionArgs,
     status : StatusStringArgs]

\* The reminder the call is made on: pending or notified, synced or not.
UpdateReminders ==
    {[NewReminder(1, start, DefaultMinutesBefore, EvalCreated) EXCEPT
         !.attendees = <<"bob@example.org">>, !.location = "Room 1",
         !.description = "Daily", !.status = st,
         !.calendar_synced = synced,
         !.google_event_id = IF synced THEN EventId(1) ELSE NoEventId] :
       start \in StartTimes, st \in {PENDING, NOTIFIED}, synced \in BOOLEAN}

InitUpdate ==
    /\ clock = FirstTime
    /\ \E r \in UpdateReminders :
          store = (1 :> r) @@
                  (2 :> NewReminder(2, 1560, DefaultMinutesBefore, EvalCreated))
    /\ ledger = Empty
    /\ nextId = 2
    /\ createdEvents = EventsOf(store)
    /\ lastOp = NoReply
    /\ pc = "idle"
    /\ tStore = Empty
    /\ tReminders = Empty
    /\ tLog = Empty
    /\ tNow = 0
    /\ sentCount = 0
    /\ attempted = {}
    /\ sendResult = Empty
    /\ prevAttempted = {}
    /\ tStoreWrites = 0
    /\ tLogWrites = 0
    /\ nOps = MaxOps - 1
    /\ nTicks = MaxTicks

NextUpdate ==
    \E id \in Ids, args \in AllUpdateArgs : \E calOk \in CalendarResults(id) :
       UpdateReminder(id, args, calOk)

SpecUpdate == InitUpdate /\ [][NextUpdate]_vars

\* ------------------------------------------------------------- properties
\* The loop does not skip reminder r at time now.
Considered(r, now) ==
    /\ r.status \in {PENDING, NOTIFIED}
    /\ ~(r.datetime < now)
    /\ r.email_enabled

\* The notification time of offset O of reminder r is not after now.
Reached(r, O, now) == now >= r.datetime - O

\* The offsets of reminder id among the pairs.
OffsetsOf(id, pairs) == {k[2] : k \in {q \in pairs : q[1] = id}}

\* The step in which a tick runs its loop and saves.
TickRuns == pc = "loaded" /\ pc' = "done"

\* C1: a tick run right after another, with no tool call in between, calls
\* send for none of the pairs the first one called it for, and every pair of
\* the first one has a key in the notification log.
C1_SecondTickSendsNothingAgain ==
    /\ attempted \cap prevAttempted = {}
    /\ prevAttempted \subseteq DOMAIN ledger
    /\ pc = "done" => attempted \subseteq DOMAIN ledger

\* C1 witness: the second tick has run and considered, at a time its
\* notification time was reached, a pair the first tick called send for.
C1_Witness ==
    /\ pc = "done"
    /\ \E k \in prevAttempted :
          /\ k[1] \in DOMAIN tStore
          /\ Considered(tStore[k[1]], tNow)
          /\ Reached(tStore[k[1]], k[2], tNow)

\* C2: the loop calls send for offset O of a loaded reminder exactly when the
\* reminder is pending or notified, its event has not started, its channel
\* is enabled, the notification time of O is reached and the log has no key
\* for (id, O); and it calls send for nothing else.
C2_DueSetCharacterised ==
    [][TickRuns =>
        /\ \A id \in DOMAIN tReminders :
             \A O \in Range(tReminders[id].minutes_before) :
                (<<id, O>> \in attempted') <=>
                    /\ tReminders[id].status \in {PENDING, NOTIFIED}
                    /\ ~(tReminders[id].datetime < clock)
                    /\ tReminders[id].email_enabled
                    /\ clock >= tReminders[id].datetime - O
                    /\ <<id, O>> \notin DOMAIN tLog
        /\ \A k \in attempted' :
             /\ k[1] \in DOMAIN tReminders
             /\ k[2] \in Range(tReminders[k[1]].minutes_before)]_vars

\* C2 witness: a pass of the loop that called send for one offset of a
\* reminder and not for another.
C2_Witness ==
    /\ pc = "done"
    /\ \E id \in DOMAIN tStore :
          /\ OffsetsOf(id, attempted) # {}
          /\ Range(tStore[id].minutes_before) \ OffsetsOf(id, attempted) # {}

\* C3: no step sets the stored status of a reminder that is notified,
\* completed or cancelled back to pending.
C3_NeverBackToPending ==
    [][\A id \in DOMAIN store \cap DOMAIN store' :
          store[id].status \in {NOTIFIED, COMPLETED, CANCELLED}
             => store'[id].status # PENDING]_vars

\* C4: a stored status changes only from pending to notified, from notified
\* to completed, or from pending or notified to cancelled.
C4_OnlyAllowedTransitions ==
    [][\A id \in DOMAIN store \cap DOMAIN store' :
          store'[id].status # store[id].status
             => <<store[id].status, store'[id].status>> \in
                   {<<PENDING, NOTIFIED>>, <<NOTIFIED, COMPLETED>>,
                    <<PENDING, CANCELLED>>, <<NOTIFIED, CANCELLED>>}]_vars

\* C5: when a tick that read a store holding a reminder whose event has
\* started ends, that reminder has had no send, and every offset of every
\* other reminder the loop considers whose notification time is reached has
\* a key in the notification log.
C5_PastReminderSkippedOthersDispatched ==
    (pc \in {"done", "aborted"}
       /\ \E p \in DOMAIN tStore :
             tStore[p].datetime < (IF pc = "done" THEN tNow ELSE clock))
    => LET now == IF pc = "done" THEN tNow ELSE clock
       IN  /\ \A p \in DOMAIN tStore :
                tStore[p].datetime < now => OffsetsOf(p, attempted) = {}
           /\ \A id \in DOMAIN tStore :
                \A O \in Range(tStore[id].minutes_before) :
                   Considered(tStore[id], now) /\ Reached(tStore[id], O, now)
                      => LogKey(id, O) \in DOMAIN ledger

\* C6: a send that fails is entered in the notification log with
\* success = false and its error message; a reminder all of whose sends of
\* the tick failed keeps its status; no tick calls send for a key the log
\* holds as failed, and that entry stays as it is.
C6_FailedSendLoggedNotRetried ==
    /\ [][TickRuns =>
            \A k \in attempted' :
               ~sendResult'[k][1] =>
                  /\ k \in DOMAIN ledger'
                  /\ ledger'[k].success = FALSE
                  /\ ledger'[k].error_message = sendResult'[k][2]
                  /\ ledger'[k].error_message # None]_vars
    /\ [][TickRuns =>
            \A id \in DOMAIN tReminders :
               (\A k \in attempted' : k[1] = id => ~sendResult'[k][1])
                  => tReminders'[id].status = tReminders[id].status]_vars
    /\ [][TickRuns =>
            \A k \in DOMAIN ledger : ~ledger[k].success => k \notin attempted']_vars
    /\ [][\A k \in DOMAIN ledger :
            ~ledger[k].success => k \in DOMAIN ledger' /\ ledger'[k] = ledger[k]]_vars

\* C6 witness: a tick has ended without a send for a pair the log holds as
\* failed although it considered the reminder and the notification time was
\* reached.
C6_Witness ==
    /\ pc = "done"
    /\ \E k \in DOMAIN ledger \ attempted :
          /\ ~ledger[k].success
          /\ ledger[k].error_message # None
          /\ k[1] \in DOMAIN tStore
          /\ Considered(tStore[k[1]], tNow)
          /\ Reached(tStore[k[1]], k[2], tNow)

\* C7: a tick whose only send is for offset 60 of a pending reminder, and
\* succeeds, adds exactly the entry (id, 60) with success = true to the log,
\* leaves the stored status notified, and writes each file exactly once.
C7_SingleSuccessfulSend ==
    [][TickRuns =>
        \A id \in DOMAIN tReminders :
           (/\ attempted' = {LogKey(id, 60)}
            /\ tReminders[id].status = PENDING
            /\ sendResult'[LogKey(id, 60)][1])
           => /\ DOMAIN ledger' = DOMAIN ledger \cup {LogKey(id, 60)}
              /\ LogKey(id, 60) \notin DOMAIN ledger
              /\ \A k \in DOMAIN ledger : ledger'[k] = ledger[k]
              /\ ledger'[LogKey(id, 60)].success = TRUE
              /\ id \in DOMAIN store'
              /\ store'[id].status = NOTIFIED
              /\ tStoreWrites' = 1
              /\ tLogWrites' = 1]_vars

\* C7 witness: such a tick has ended.
C7_Witness ==
    /\ pc = "done"
    /\ \E id \in DOMAIN tStore :
          /\ attempted = {LogKey(id, 60)}
          /\ tStore[id].status = PENDING
          /\ sendResult[LogKey(id, 60)][1]

\* The reminder of scenarios A and B at the time of the scenarios.
ScenarioReminder(r, now) ==
    /\ r.status = PENDING
    /\ r.minutes_before = <<60, 1440>>
    /\ r.email_enabled
    /\ now = r.datetime - 30

C9_DeleteRefusedLeavesStore ==
    [][(lastOp'.op = "delete" /\ lastOp'.cal = "failed") =>
          /\ ~lastOp'.ok
          /\ lastOp'.err = "calendar"
          /\ store' = store]_vars

\* C9 witness: such a call has returned, and the synced reminder is in the
\* store.
C9_Witness ==
    /\ lastOp.op = "delete"
    /\ lastOp.cal = "failed"
    /\ ~lastOp.ok
    /\ lastOp.id \in DOMAIN store
    /\ store[lastOp.id].calendar_synced

\* C10: a create_reminder call with a start time before the current time
\* returns the validation error and leaves reminders.json as it was.
C10_CreatePastRejected ==
    [][(lastOp'.op = "create" /\ lastOp'.arg[1] < clock) =>
          /\ ~lastOp'.ok
          /\ lastOp'.err = "validation"
          /\ store' = store]_vars

\* C10 witness: such a call has returned.
C10_Witness ==
    /\ lastOp.op = "create"
    /\ lastOp.arg[1] < clock
    /\ ~lastOp.ok

\* C11 as claimed: whatever the time of the load, loading what was saved
\* for the reminder map of reminders.json gives that map back.
C11_SaveLoadRoundTrip ==
    LET loaded == load_reminders(save_reminders(store), clock)
    IN  loaded.ok /\ loaded.value = store

\* The step in which a tick that has loaded runs its loop and ends.
TickEnds == pc = "loaded" /\ pc' \notin {"loaded", "idle"}

\* C12: when what happens inside send for one due pair is an exception, the
\* tick still calls send for every due pair, enters each of them in the
\* notification log with what send returned, and saves the log once.
C12_SendErrorDoesNotStopTick ==
    [][TickEnds =>
        LET due == DuePairs(tReminders, clock, tLog)
        IN  /\ attempted' = due
            /\ \A k \in due :
                  /\ k \in DOMAIN ledger'
                  /\ ledger'[k].success = sendResult'[k][1]
                  /\ ledger'[k].error_message = sendResult'[k][2]
            /\ tLogWrites' = 1]_vars

\* C12 witness: a tick has ended in which send failed for one pair and
\* succeeded for another, both being in the saved log.
C12_Witness ==
    /\ pc = "done"
    /\ \E k1, k2 \in attempted :
          /\ ~sendResult[k1][1]
          /\ sendResult[k2][1]
          /\ {k1, k2} \subseteq DOMAIN ledger
          /\ ~ledger[k1].success
          /\ ledger[k2].success

\* C13: no error leaves check_and_send_reminders, whether raised by the
\* load, the loop or a save; a tick that has ended returns to the trigger.
C13_TickNeverRaises ==
    /\ [](pc \in {"idle", "loaded", "done", "aborted"})
    /\ [][(pc \in {"done", "aborted"}) => (pc' = "idle")]_vars

\* C13 witness: a tick has ended on a save that raised after sends were
\* made.
C13_Witness ==
    /\ pc = "aborted"
    /\ attempted # {}

\* The fields of a reminder that update_reminder has no argument for.
KeptByUpdate ==
    {"id", "minutes_before", "email_enabled", "calendar_synced",
     "google_event_id", "created_at"}

\* An update_reminder call has just been applied to a stored reminder.
Updated == lastOp'.op = "update" /\ lastOp'.id \in DOMAIN store /\ lastOp'.ok

\* What update_reminder leaves alone: the other reminders, and the fields
\* of the reminder it has no argument for; updated_at is the time of the
\* call.
UpdateFrame ==
    /\ DOMAIN store' = DOMAIN store
    /\ \A other \in DOMAIN store \ {lastOp'.id} : store'[other] = store[other]
    /\ \A f \in KeptByUpdate : store'[lastOp'.id][f] = store[lastOp'.id][f]
    /\ store'[lastOp'.id].updated_at = clock

C15_CalendarFailureKeepsUpdate ==
    [][(lastOp'.op = "update" /\ lastOp'.cal = "failed") =>
          /\ lastOp'.ok
          /\ lastOp'.err = "calendar warning"
          /\ lastOp'.id \in DOMAIN store'
          /\ store'[lastOp'.id].updated_at = clock
          /\ lastOp'.arg.status # None =>
                store'[lastOp'.id].status = lastOp'.arg.status
          /\ lastOp'.arg.datetime_str # <<>> =>
                store'[lastOp'.id].datetime = lastOp'.arg.datetime_str[1][2]]_vars

\* C15 witness: such a call has returned, and the status it gave, which the
\* reminder did not have, is the stored one.
C15_Witness ==
    /\ lastOp.op = "update"
    /\ lastOp.cal = "failed"
    /\ lastOp.ok
    /\ lastOp.arg.status = CANCELLED
    /\ store[lastOp.id].status = CANCELLED
    /\ store[lastOp.id].calendar_synced

\* C16: after a sync_to_calendar call, a reminder that was not synced is
\* synced and has an event id exactly when the call's results hold a
\* successful create for it; a reminder whose create failed is reported as
\* failed and stays unsynced, with no event id.
C16_SyncedOnlyOnCreateSuccess ==
    [][(lastOp'.op = "sync" /\ lastOp'.ok) =>
          /\ DOMAIN store' = DOMAIN store
          /\ \A id \in DOMAIN store :
                ~store[id].calendar_synced =>
                   IF id \in DOMAIN lastOp'.arg /\ lastOp'.arg[id].success
                   THEN /\ lastOp'.arg[id].action = "create"
                        /\ store'[id].calendar_synced
                        /\ store'[id].google_event_id # NoEventId
                   ELSE /\ ~store'[id].calendar_synced
                        /\ store'[id].google_event_id = NoEventId]_vars

\* C16 witness: a call has returned whose results hold a successful create
\* and a failed one; the first reminder is synced, the second is not.
C16_Witness ==
    /\ lastOp.op = "sync"
    /\ lastOp.ok
    /\ \E i, j \in DOMAIN lastOp.arg :
          /\ lastOp.arg[i].action = "create" /\ lastOp.arg[i].success
          /\ lastOp.arg[j].action = "create" /\ ~lastOp.arg[j].success
          /\ store[i].calendar_synced /\ store[i].google_event_id # NoEventId
          /\ ~store[j].calendar_synced /\ store[j].google_event_id = NoEventId

\* C17 as claimed: for the reminders file, the log and the clock of any
\* state, the items get_pending_notifications returns are the pairs the
\* loop of the tick would call send for, in ascending order of notification
\* time.
C17_PendingIsDueSet ==
    LET pending == get_pending_notifications(store, clock, ledger)
        items == pending.value
    IN  pending.ok =>
          /\ {LogKey(items[i].reminder_id, items[i].minutes_before) :
                 i \in DOMAIN items} = DuePairs(store, clock, ledger)
          /\ \A i, j \in DOMAIN items :
                i < j => IsoLessEq(items[i].notification_time,
                                   items[j].notification_time)

\* C18 as claimed: when a tick ends, however it ends, every pair it called
\* send for has an entry in notification_log.json.
C18_AttemptedAreLogged ==
    pc \in {"done", "aborted"} => attempted \subseteq DOMAIN ledger

\* C19 as claimed: a reminder leaves reminders.json only by a delete_reminder
\* call for it that returns success.
C19_RemovedOnlyByDelete ==
    [][\A id \in DOMAIN store :
          id \notin DOMAIN store' =>
             /\ lastOp'.op = "delete"
             /\ lastOp'.id = id
             /\ lastOp'.ok]_vars

\* C20 as claimed: an entry of notification_log.json is never removed and
\* never changed, and only a tick adds entries.
C20_LedgerAppendOnly ==
    [][/\ \A k \in DOMAIN ledger :
             k \in DOMAIN ledger' /\ ledger'[k] = ledger[k]
       /\ DOMAIN ledger' # DOMAIN ledger => pc = "loaded"]_vars

\* The first position of offset O in the configured offsets mbs.
FirstPos(mbs, O) ==
    CHOOSE p \in 1..Len(mbs) : mbs[p] = O /\ \A q \in 1..(p - 1) : mbs[q] # O

\* C21: after a tick that completes, every pair (reminder, offset) that was
\* due at the tick's now (reminder pending or notified, event not started,
\* channel enabled, notification time reached, no key in the log that was
\* loaded) has an entry in the saved log that this tick made; send is called
\* once for each such pair, and the offsets of one reminder are reached in
\* the order of its minutes_before.
C21_EveryDueOffsetLoggedInOrder ==
    [][TickRuns =>
        LET seq == DueSeq(tReminders, clock, tLog)
        IN  /\ \A id \in DOMAIN tReminders :
                 \A O \in Range(tReminders[id].minutes_before) :
                    (/\ Considered(tReminders[id], clock)
                     /\ Reached(tReminders[id], O, clock)
                     /\ <<id, O>> \notin DOMAIN tLog)
                    => /\ <<id, O>> \in DOMAIN ledger'
                       /\ <<id, O>> \in DOMAIN sendResult'
                       /\ ledger'[<<id, O>>].success = sendResult'[<<id, O>>][1]
                       /\ \E j \in 1..Len(seq) : seq[j] = <<id, O>>
            /\ Len(seq) = Cardinality(attempted')
            /\ Cardinality(DOMAIN ledger') =
                  Cardinality(DOMAIN tLog) + Cardinality(attempted')
            /\ \A i, j \in 1..Len(seq) :
                  (i < j /\ seq[i][1] = seq[j][1])
                  => FirstPos(tReminders[seq[i][1]].minutes_before, seq[i][2])
                     < FirstPos(tReminders[seq[j][1]].minutes_before, seq[j][2])]_vars

\* C21 witness: a tick has completed in which two offsets of one reminder,
\* configured as <<1440, 60>>, were due; both have an entry in the saved log.
C21_Witness ==
    /\ pc = "done"
    /\ \E id \in DOMAIN tStore :
          /\ tStore[id].minutes_before = <<1440, 60>>
          /\ Considered(tStore[id], tNow)
          /\ {<<id, 1440>>, <<id, 60>>} \subseteq attempted
          /\ {<<id, 1440>>, <<id, 60>>} \subseteq DOMAIN ledger

\* C22: a tick that completes changes nothing of a reminder it loaded but
\* its status, from pending to notified, and only when one of its sends of
\* this tick succeeded; a notified reminder stays notified; what it writes to
\* the store is the map it loaded with these statuses.
C22_TickChangesOnlyStatus ==
    [][TickRuns =>
        /\ DOMAIN tReminders' = DOMAIN tStore
        /\ \A id \in DOMAIN tStore :
             /\ tReminders'[id] =
                   [tStore[id] EXCEPT !.status = tReminders'[id].status]
             /\ tStore[id].status = NOTIFIED => tReminders'[id].status = NOTIFIED
             /\ tReminders'[id].status # tStore[id].status
                => /\ tStore[id].status = PENDING
                   /\ tReminders'[id].status = NOTIFIED
                   /\ \E k \in attempted' : k[1] = id /\ sendResult'[k][1]
        /\ store' # store => store' = tReminders']_vars

\* C22 witness: a tick has completed and written the store; one reminder it
\* loaded as pending is stored as notified after a successful send, and a
\* reminder whose only send failed is stored as loaded.
C22_Witness ==
    /\ pc = "done"
    /\ tStoreWrites > 0
    /\ store = tReminders
    /\ \E id \in DOMAIN tStore :
          /\ tStore[id].status = PENDING
          /\ store[id].status = NOTIFIED
          /\ \E k \in attempted : k[1] = id /\ sendResult[k][1]
    /\ \E id \in DOMAIN tStore :
          /\ OffsetsOf(id, attempted) # {}
          /\ \A k \in attempted : k[1] = id => ~sendResult[k][1]
          /\ store[id] = tStore[id]

\* C23: in a tick that completes, notification_log.json is written once and
\* reminders.json at most once, and reminders.json is written exactly when
\* the status of some loaded reminder changed in this tick.
C23_StoreWrittenIffStatusChanged ==
    [][TickRuns =>
        /\ tLogWrites' = 1
        /\ tStoreWrites' <= 1
        /\ (tStoreWrites' = 1) <=>
              \E id \in DOMAIN tStore :
                 tReminders'[id].status # tStore[id].status]_vars

\* C24: every step that changes a field of a stored reminder sets its
\* updated_at to the time of the step.
C24_MutationSetsUpdatedAt ==
    [][\A id \in DOMAIN store \cap DOMAIN store' :
          store'[id] # store[id] => store'[id].updated_at = clock]_vars

\* C25: a load of reminders.json never fails: the tick that loads goes on to
\* its loop (with the empty map when a record cannot be made a Reminder), and
\* no tool call ends on an error of its load.
C25_LoadNeverFails ==
    [][/\ (pc = "idle" /\ pc' # "idle")
          => /\ pc' = "loaded"
             /\ ~load_reminders_ok(store, clock) => tReminders' = Empty
       /\ lastOp'.err # "load"]_vars

\* C26: in every state of reminders.json, a reminder's calendar_synced is
\* true exactly when its google_event_id is set.
C26_SyncedIffEventId ==
    \A id \in DOMAIN store :
       store[id].calendar_synced <=> store[id].google_event_id # NoEventId

\* C26 witness: a sync_to_calendar call has returned; the store holds a
\* reminder that is synced and has its event id, and one that is neither.
C26_Witness ==
    /\ lastOp.op = "sync"
    /\ lastOp.ok
    /\ \E a, b \in DOMAIN store :
          /\ store[a].calendar_synced
          /\ store[a].google_event_id = EventId(a)
          /\ ~store[b].calendar_synced
          /\ store[b].google_event_id = NoEventId

\* C27: a reminder that has left reminders.json (ids are given once, so one
\* that delete_reminder removed) is not in it again after any later step,
\* the save of a tick that loaded before the delete included.
C27_DeletedNeverReappears ==
    [][\A id \in 1..nextId :
          id \notin DOMAIN store => id \notin DOMAIN store']_vars

\* C28: once the event of some stored reminder has started, update_reminder
\* and delete_reminder calls for a stored reminder still succeed (a delete
\* may still be refused by the calendar).
C28_ToolsSucceedAfterStart ==
    [][(/\ lastOp'.op \in {"update", "delete"}
        /\ lastOp'.id \in DOMAIN store
        /\ \E p \in DOMAIN store : store[p].datetime < clock)
       => (lastOp'.ok \/ lastOp'.err = "calendar")]_vars

\* C29: a tick calls send for every offset of a reminder it considers whose
\* notification time is reached, unless the log it loaded has an entry for
\* that offset made for the reminder's present start time; an entry made
\* for an earlier start time does not hold the send back.
C29_OldStartEntriesDoNotSuppress ==
    [][TickRuns =>
        \A id \in DOMAIN tReminders :
           \A O \in Range(tReminders[id].minutes_before) :
              (/\ Considered(tReminders[id], clock)
               /\ Reached(tReminders[id], O, clock)
               /\ ~\E k \in DOMAIN tLog :
                     /\ tLog[k].reminder_id = id
                     /\ tLog[k].minutes_before = O
                     /\ tLog[k].notification_time = tReminders[id].datetime - O)
              => <<id, O>> \in attempted']_vars

\* C30: create_event succeeds at most once for a reminder, whatever
\* sync_to_calendar calls are made (a later sync of it is an update), and a
\* sync_to_calendar call for all reminders makes no calendar call for a
\* cancelled reminder.
C30_AtMostOneCreate ==
    /\ [](\A id \in DOMAIN createdEvents : createdEvents[id] <= 1)
    /\ [][(lastOp'.op = "sync" /\ lastOp'.id = 0 /\ lastOp'.ok)
          => \A id \in DOMAIN lastOp'.arg : store[id].status # CANCELLED]_vars

====
